---- MODULE Spec2Model ----
(***************************************************************************)
(* A model of comp_geom_2D (src/comp_geom_2D.cxx): the predicates          *)
(* orientation, onSegment and doIntersect, and convexHull, isInside,       *)
(* polygonArea, closestPair and polygonDiameter, for an integer            *)
(* coordinate type T.                                                      *)
(*                                                                         *)
(* The library keeps no state of its own.  The state of the model is the   *)
(* caller's: the vector `points` it passes (convexHull sorts it in place), *)
(* the scalar arguments of the last call, which function was called, and   *)
(* what it returned.                                                       *)
(***************************************************************************)
EXTENDS Integers, Sequences, FiniteSets

VARIABLES
    points,   \* the caller's std::vector<Point<T>>
    given,    \* that vector as it was when the last call was made
    args,     \* the Point<T> arguments of the last call, in order
    op,       \* the function called last ("none" before any call)
    result,   \* what that call returned
    copies    \* the sorted copies <<pointsX, pointsY>> closestPair made in that call

vars == <<points, given, args, op, result, copies>>

----------------------------------------------------------------------------
(* Bounds of the model *)

\* T is a signed two's-complement integer type of TBits bits.
TBits == 6
\* Point sets are drawn from the grid 0..MaxX by 0..MaxY.
MaxX == 2
MaxY == 2
\* The longest vector handed to convexHull / polygonDiameter.
MaxPts == 5

----------------------------------------------------------------------------
(* The coordinate type T and Point<T> *)

Pow2(n) == 2 ^ n
MaxT == Pow2(TBits - 1) - 1          \* std::numeric_limits<T>::max()
MinT == - Pow2(TBits - 1)            \* std::numeric_limits<T>::min()
InT(v) == MinT <= v /\ v <= MaxT

\* A value of the mathematical integers reduced to T (two's complement).
WrapT(v) == ((v - MinT) % Pow2(TBits)) + MinT

\* a - b evaluated in T, as the usual two's-complement build evaluates it.
SubT(a, b) == WrapT(a - b)

\* a * b evaluated in T.
MulT(a, b) == WrapT(a * b)

Abs(v) == IF v < 0 THEN -v ELSE v
Max(a, b) == IF a < b THEN b ELSE a
Min(a, b) == IF b < a THEN b ELSE a

Point(x, y) == [x |-> x, y |-> y]

\* Point::operator<
PointLess(a, b) == IF a.x # b.x THEN a.x < b.x ELSE a.y < b.y

\* Point::operator== for an integer T
PointEq(a, b) == a.x = b.x /\ a.y = b.y

\* std::abs(val) < EPS, EPS = 1e-9, for a long double val that holds an integer
AbsLessEPS(val) == val = 0

----------------------------------------------------------------------------
(* Predicates *)

\* The turn code of a cross-product value: 0 collinear, 1 clockwise, 2 counter-clockwise.
TurnOf(val) == IF AbsLessEPS(val) THEN 0 ELSE IF val > 0 THEN 1 ELSE 2

\* The long double val of orientation, from its four differences, each taken in T
\* before the cast to long double widens it.
CrossVal(dy1, dx2, dx1, dy2) == dy1 * dx2 - dx1 * dy2

orientation(p, q, r) ==
    TurnOf(CrossVal(SubT(q.y, p.y), SubT(r.x, q.x), SubT(q.x, p.x), SubT(r.y, q.y)))

\* onSegment with the two y comparisons left out.
onSegmentXOnly(p, q, r) == q.x <= Max(p.x, r.x) /\ q.x >= Min(p.x, r.x)

onSegment(p, q, r) ==
    /\ q.x <= Max(p.x, r.x)
    /\ q.x >= Min(p.x, r.x)
    /\ q.y <= Max(p.y, r.y)
    /\ q.y >= Min(p.y, r.y)

doIntersect(p1, q1, p2, q2) ==
    LET o1 == orientation(p1, q1, p2)
        o2 == orientation(p1, q1, q2)
        o3 == orientation(p2, q2, p1)
        o4 == orientation(p2, q2, q1)
    IN  IF o1 # 0 /\ o2 # 0 /\ o3 # 0 /\ o4 # 0 /\ o1 # o2 /\ o3 # o4 THEN TRUE
        ELSE IF o1 = 0 /\ onSegment(p1, p2, q1) THEN TRUE
        ELSE IF o2 = 0 /\ onSegment(p1, q2, q1) THEN TRUE
        ELSE IF o3 = 0 /\ onSegment(p2, p1, q2) THEN TRUE
        ELSE IF o4 = 0 /\ onSegment(p2, q1, q2) THEN TRUE
        ELSE FALSE

----------------------------------------------------------------------------
(* Sequences *)

Front(s) == SubSeq(s, 1, Len(s) - 1)
Last(s) == s[Len(s)]

\* s with v put before the first element that v is less than: one step of an
\* insertion sort under Point::operator<.
RECURSIVE InsertSorted(_, _)
InsertSorted(s, v) ==
    IF s = <<>> THEN <<v>>
    ELSE IF PointLess(v, Head(s)) THEN <<v>> \o s
    ELSE <<Head(s)>> \o InsertSorted(Tail(s), v)

\* std::sort(begin, end) under Point::operator<.  Elements that compare equivalent
\* are equal in both coordinates, so the sorted sequence is unique.
RECURSIVE SortPoints(_)
SortPoints(s) ==
    IF s = <<>> THEN <<>> ELSE InsertSorted(SortPoints(Front(s)), Last(s))

----------------------------------------------------------------------------
(* convexHull *)

\* PopNotCCW with the turn test reversed: it pops unless the turn is clockwise.
RECURSIVE PopNotCW(_, _, _)
PopNotCW(hull, p, minSize) ==
    IF Len(hull) >= minSize /\ orientation(hull[Len(hull) - 1], Last(hull), p) # 1
    THEN PopNotCW(Front(hull), p, minSize)
    ELSE hull

\* The while loop of both chains: pop while the hull holds at least minSize points
\* and its last two points do not make a counter-clockwise turn with p.
RECURSIVE PopNotCCW(_, _, _)
PopNotCCW(hull, p, minSize) ==
    IF Len(hull) >= minSize /\ orientation(hull[Len(hull) - 1], Last(hull), p) # 2
    THEN PopNotCCW(Front(hull), p, minSize)
    ELSE hull

\* for (i = 0; i < n; ++i): the lower chain over sorted pts, from index i (1-based).
RECURSIVE LowerChain(_, _, _)
LowerChain(pts, i, hull) ==
    IF i > Len(pts) THEN hull
    ELSE LowerChain(pts, i + 1, Append(PopNotCCW(hull, pts[i], 2), pts[i]))

\* for (i = n - 2; i >= 0; i--): the upper chain, from index i (1-based) down to 1.
RECURSIVE UpperChain(_, _, _, _)
UpperChain(pts, i, hull, t) ==
    IF i < 1 THEN hull
    ELSE UpperChain(pts, i - 1, Append(PopNotCCW(hull, pts[i], t), pts[i]), t)

\* convexHull without the early return for n <= 2: the short input comes back sorted.
convexHullNoEarlyReturn(pts) == SortPoints(pts)

\* The vector convexHull returns.
convexHull(pts) ==
    IF Len(pts) <= 2 THEN pts
    ELSE LET srt == SortPoints(pts)
             lower == LowerChain(srt, 1, <<>>)
             t == Len(lower) + 1
         IN  Front(UpperChain(srt, Len(srt) - 1, lower, t))

\* The caller's vector after convexHull: sorted in place unless n <= 2.
convexHullSorts(pts) == IF Len(pts) <= 2 THEN pts ELSE SortPoints(pts)

----------------------------------------------------------------------------
(* isInside *)

\* polygon[i] with the source's 0-based index.
At(s, i) == s[i + 1]

\* The do-while loop from edge i on, with `count` crossings so far.
RECURSIVE isInsideLoop(_, _, _, _)
isInsideLoop(polygon, p, i, count) ==
    LET n == Len(polygon)
        next == (i + 1) % n
        extreme == Point(MaxT, p.y)
        hit == doIntersect(At(polygon, i), At(polygon, next), p, extreme)
    IN  IF hit /\ orientation(At(polygon, i), p, At(polygon, next)) = 0
        THEN onSegment(At(polygon, i), p, At(polygon, next))
        ELSE LET c == IF hit THEN count + 1 ELSE count
             IN  IF next # 0 THEN isInsideLoop(polygon, p, next, c)
                 ELSE c % 2 = 1

isInside(polygon, p) ==
    IF Len(polygon) < 3 THEN FALSE ELSE isInsideLoop(polygon, p, 0, 0)

----------------------------------------------------------------------------
(* polygonArea *)

\* The long double `area` after the loop has run over edges i .. n-1.
RECURSIVE ShoelaceSum(_, _, _)
ShoelaceSum(polygon, i, area) ==
    LET n == Len(polygon)
    IN  IF i >= n THEN area
        ELSE ShoelaceSum(polygon, i + 1,
                 area + At(polygon, i).x * At(polygon, (i + 1) % n).y
                      - At(polygon, (i + 1) % n).x * At(polygon, i).y)

\* The value returned, as the fraction num / den: 0.0, or std::abs(area) / 2.0.
polygonArea(polygon) ==
    IF Len(polygon) < 3 THEN [num |-> 0, den |-> 1]
    ELSE [num |-> Abs(ShoelaceSum(polygon, 0, 0)), den |-> 2]

----------------------------------------------------------------------------
(* closestPair *)

\* std::numeric_limits<long double>::max(): above every squared distance in T.
LDBL_MAX == 2147483647

\* Each difference is taken in T; the cast to long double widens the product.
distSq(p1, p2) ==
    SubT(p1.x, p2.x) * SubT(p1.x, p2.x) + SubT(p1.y, p2.y) * SubT(p1.y, p2.y)

sortByY(a, b) == a.y < b.y

\* The distinct arrangements of the elements of s.
RECURSIVE Arrangements(_)
Arrangements(s) ==
    IF s = <<>> THEN {<<>>}
    ELSE UNION { { <<s[i]>> \o t :
                     t \in Arrangements(SubSeq(s, 1, i - 1) \o SubSeq(s, i + 1, Len(s))) }
                 : i \in 1..Len(s) }

SelectSeq2(s, y) == SelectSeq(s, LAMBDA e : e.y = y)

\* The concatenations of one arrangement per y value, y values ascending from lo.
RECURSIVE ByRows(_, _, _)
ByRows(s, lo, hi) ==
    IF lo > hi THEN {<<>>}
    ELSE { a \o b : a \in Arrangements(SelectSeq2(s, lo)), b \in ByRows(s, lo + 1, hi) }

\* What std::sort(begin, end, sortByY) may leave: std::sort is not stable, so
\* points of equal y end in an order the library does not specify.  Every
\* arrangement of s that is in non-decreasing y order is an outcome.
SortByYOutcomes(s) ==
    IF s = <<>> THEN {<<>>}
    ELSE LET ys == {s[i].y : i \in 1..Len(s)}
             lo == CHOOSE y \in ys : \A z \in ys : y <= z
             hi == CHOOSE y \in ys : \A z \in ys : z <= y
         IN  ByRows(s, lo, hi)

\* The inner loop of stripClosest from j on: the y gap is squared in T.
RECURSIVE StripInner(_, _, _, _)
StripInner(strip, i, j, min_d) ==
    IF j < Len(strip)
       /\ MulT(SubT(At(strip, j).y, At(strip, i).y), SubT(At(strip, j).y, At(strip, i).y)) < min_d
    THEN StripInner(strip, i, j + 1, Min(min_d, distSq(At(strip, i), At(strip, j))))
    ELSE min_d

RECURSIVE StripOuter(_, _, _)
StripOuter(strip, i, min_d) ==
    IF i >= Len(strip) THEN min_d
    ELSE StripOuter(strip, i + 1, StripInner(strip, i, i + 1, min_d))

\* stripClosest that never scans the strip.
stripClosestNoScan(strip, d) == d

stripClosest(strip, d) == StripOuter(strip, 0, d)

\* The base case n <= 3: the minimum over all pairs i < j, from LDBL_MAX down.
RECURSIVE BruteInner(_, _, _, _)
BruteInner(pointsX, i, j, min_d) ==
    IF j >= Len(pointsX) THEN min_d
    ELSE BruteInner(pointsX, i, j + 1, Min(min_d, distSq(At(pointsX, i), At(pointsX, j))))

RECURSIVE BruteOuter(_, _, _)
BruteOuter(pointsX, i, min_d) ==
    IF i >= Len(pointsX) THEN min_d
    ELSE BruteOuter(pointsX, i + 1, BruteInner(pointsX, i, i + 1, min_d))

\* The partition of pointsY around midPoint, and the index split of pointsX.
InLeftOf(p, midPoint) == p.x < midPoint.x \/ (p.x = midPoint.x /\ p.y < midPoint.y)
midOf(pointsX) == Len(pointsX) \div 2
midPointOf(pointsX) == At(pointsX, midOf(pointsX))
yLOf(pointsX, pointsY) == SelectSeq(pointsY, LAMBDA p : InLeftOf(p, midPointOf(pointsX)))
yROf(pointsX, pointsY) == SelectSeq(pointsY, LAMBDA p : ~ InLeftOf(p, midPointOf(pointsX)))
xLOf(pointsX) == SubSeq(pointsX, 1, midOf(pointsX))
xROf(pointsX) == SubSeq(pointsX, midOf(pointsX) + 1, Len(pointsX))

\* The strip: the points of pointsY whose squared x distance to midPoint is below d.
stripOf(pointsX, pointsY, d) ==
    SelectSeq(pointsY, LAMBDA p :
        Abs(p.x - midPointOf(pointsX).x) * Abs(p.x - midPointOf(pointsX).x) < d)

RECURSIVE closestPairUtil(_, _)
closestPairUtil(pointsX, pointsY) ==
    IF Len(pointsX) <= 3 THEN BruteOuter(pointsX, 0, LDBL_MAX)
    ELSE LET dL == closestPairUtil(xLOf(pointsX), yLOf(pointsX, pointsY))
             dR == closestPairUtil(xROf(pointsX), yROf(pointsX, pointsY))
             d == Min(dL, dR)
         IN  Min(d, stripClosest(stripOf(pointsX, pointsY, d), d))

\* Every invocation <<pointsX, pointsY>> of closestPairUtil under this one.
RECURSIVE closestPairUtilCalls(_, _)
closestPairUtilCalls(pointsX, pointsY) ==
    {<<pointsX, pointsY>>} \cup
    IF Len(pointsX) <= 3 THEN {}
    ELSE closestPairUtilCalls(xLOf(pointsX), yLOf(pointsX, pointsY))
         \cup closestPairUtilCalls(xROf(pointsX), yROf(pointsX, pointsY))

----------------------------------------------------------------------------
(* polygonDiameter *)

\* The cross product of the direction vectors of hull edges i and j; the
\* vectors are Point<T>, so their components are differences taken in T.
EdgeCross(hull, i, j) ==
    LET n == Len(hull)
        p1 == At(hull, i)
        p2 == At(hull, (i + 1) % n)
        q1 == At(hull, j)
        q2 == At(hull, (j + 1) % n)
    IN  SubT(p2.x, p1.x) * SubT(q2.y, q1.y) - SubT(p2.y, p1.y) * SubT(q2.x, q1.x)

\* AdvanceJ with the sign test reversed: j moves on while cross_prod < 0.
RECURSIVE AdvanceJReversed(_, _, _)
AdvanceJReversed(hull, i, j) ==
    IF EdgeCross(hull, i, j) < 0 THEN AdvanceJReversed(hull, i, (j + 1) % Len(hull)) ELSE j

\* while (true): j after the loop for edge i.
RECURSIVE AdvanceJ(_, _, _)
AdvanceJ(hull, i, j) ==
    IF EdgeCross(hull, i, j) > 0 THEN AdvanceJ(hull, i, (j + 1) % Len(hull)) ELSE j

\* for (i = 0; i < n; ++i), from i on: max_dist_sq after the sweep.
RECURSIVE CalipersLoop(_, _, _, _)
CalipersLoop(hull, i, j, max_dist_sq) ==
    LET n == Len(hull)
    IN  IF i >= n THEN max_dist_sq
        ELSE LET j2 == AdvanceJ(hull, i, j)
                 m1 == Max(max_dist_sq, distSq(At(hull, i), At(hull, j2)))
                 m2 == Max(m1, distSq(At(hull, (i + 1) % n), At(hull, j2)))
             IN  CalipersLoop(hull, i + 1, j2, m2)

\* The square of the value polygonDiameter returns: the argument of its final
\* std::sqrt, or 0 where it returns 0.0.
polygonDiameter(pts) ==
    IF Len(pts) < 2 THEN 0
    ELSE LET hull == convexHull(pts)
         IN  IF Len(hull) = 2 THEN distSq(hull[1], hull[2])
             ELSE IF Len(hull) < 2 THEN 0
             ELSE CalipersLoop(hull, 0, 1, 0)

----------------------------------------------------------------------------
(* Undefined behaviour in orientation *)

\* q.y - p.y and the other three differences of orientation are evaluated in T
\* before the cast: where the exact difference does not fit T the signed
\* subtraction is undefined.  The build may wrap it (two's complement) or carry
\* it out in a wider register, which leaves the exact value.
SubTOutcomes(a, b) == IF InT(a - b) THEN {a - b} ELSE {WrapT(a - b), a - b}

orientationOutcomes(p, q, r) ==
    { TurnOf(CrossVal(dy1, dx2, dx1, dy2)) :
        dy1 \in SubTOutcomes(q.y, p.y), dx2 \in SubTOutcomes(r.x, q.x),
        dx1 \in SubTOutcomes(q.x, p.x), dy2 \in SubTOutcomes(r.y, q.y) }

----------------------------------------------------------------------------
(* The caller *)

\* More bounds.  MaxShort: the longest vector in the runs that pass one vector
\* to every function.  MaxPoly: the most vertices of a polygon handed to isInside
\* and polygonArea in any order.  The closest-pair runs take longer vectors over
\* a grid of their own, the predicates points of a wider grid.
MaxShort == 3
MaxPoly == 4
CPMaxX == 1
CPMaxY == 1
CPMaxPts == 7
PMaxX == 3
PMaxY == 2

\* The grids lie well inside T: every difference of two grid coordinates, and of
\* a grid coordinate and std::numeric_limits<T>::max(), is representable in T.
Grid == {Point(x, y) : x \in 0..MaxX, y \in 0..MaxY}
CPGrid == {Point(x, y) : x \in 0..CPMaxX, y \in 0..CPMaxY}
PGrid == {Point(x, y) : x \in 0..PMaxX, y \in 0..PMaxY}
\* Coordinates at and next to the ends of T, and around 0.
EdgeCoords == {MinT, MinT + 1, -1, 0, 1, MaxT - 1, MaxT}
EdgePoints == {Point(x, y) : x \in EdgeCoords, y \in EdgeCoords}

Init ==
    /\ points = <<>>
    /\ given = <<>>
    /\ args = <<>>
    /\ op = "none"
    /\ result = 0
    /\ copies = <<>>

\* The caller appends a point of `grid` to its vector, of up to maxLen points,
\* before any call.  convexHull, polygonDiameter and closestPair sort what they
\* are given, so a vector is built in non-increasing order: one vector for every
\* multiset of points, in the order that leaves std::sort the most to do.
PushBack(grid, maxLen) ==
    /\ op = "none"
    /\ Len(points) < maxLen
    /\ \E p \in grid :
          /\ IF points = <<>> THEN TRUE ELSE ~ PointLess(Last(points), p)
          /\ points' = Append(points, p)
    /\ UNCHANGED <<given, args, op, result, copies>>

\* The caller appends a vertex to a polygon, in any order.
PushVertex ==
    /\ op = "none"
    /\ Len(points) < MaxPoly
    /\ \E p \in Grid : points' = Append(points, p)
    /\ UNCHANGED <<given, args, op, result, copies>>

CallOrientation ==
    /\ op = "none"
    /\ op' = "orientation"
    /\ \E p, q, r \in EdgePoints :
          /\ args' = <<p, q, r>>
          /\ result' \in orientationOutcomes(p, q, r)
    /\ UNCHANGED <<points, given, copies>>

CallDoIntersect ==
    /\ op = "none"
    /\ op' = "doIntersect"
    /\ \E p1, q1, p2, q2 \in PGrid :
          /\ args' = <<p1, q1, p2, q2>>
          /\ result' = doIntersect(p1, q1, p2, q2)
    /\ UNCHANGED <<points, given, copies>>

CallConvexHull ==
    /\ op = "none"
    /\ op' = "convexHull"
    /\ given' = points
    /\ points' = convexHullSorts(points)
    /\ result' = convexHull(points)
    /\ UNCHANGED <<args, copies>>

CallIsInside ==
    /\ op = "none"
    /\ op' = "isInside"
    /\ given' = points
    /\ \E p \in Grid :
          /\ args' = <<p>>
          /\ result' = isInside(points, p)
    /\ UNCHANGED <<points, copies>>

CallPolygonArea ==
    /\ op = "none"
    /\ op' = "polygonArea"
    /\ given' = points
    /\ result' = polygonArea(points)
    /\ UNCHANGED <<points, args, copies>>

\* result is the square of the distance returned: the argument of the final
\* std::sqrt, or 0 for the 0.0 of the early return.
CallClosestPair ==
    /\ op = "none"
    /\ op' = "closestPair"
    /\ given' = points
    /\ IF Len(points) < 2
       THEN result' = 0 /\ copies' = <<>>
       ELSE \E pointsY \in SortByYOutcomes(points) :
               LET pointsX == SortPoints(points)
               IN  /\ result' = closestPairUtil(pointsX, pointsY)
                   /\ copies' = <<pointsX, pointsY>>
    /\ UNCHANGED <<points, args>>

\* result is the square of the distance returned.  The hull is built on the
\* caller's vector, which convexHull sorts.
CallPolygonDiameter ==
    /\ op = "none"
    /\ op' = "polygonDiameter"
    /\ given' = points
    /\ points' = IF Len(points) < 2 THEN points ELSE convexHullSorts(points)
    /\ result' = polygonDiameter(points)
    /\ UNCHANGED <<args, copies>>

\* Point sets of up to MaxPts points: their hull and their diameter.
Next ==
    \/ PushBack(Grid, MaxPts)
    \/ CallConvexHull
    \/ CallPolygonDiameter

Spec == Init /\ [][Next]_vars

\* Vectors of up to MaxShort points passed to every function that takes one.
NextShort ==
    \/ PushBack(Grid, MaxShort)
    \/ CallConvexHull
    \/ CallPolygonDiameter
    \/ CallClosestPair
    \/ CallPolygonArea
    \/ CallIsInside

SpecShort == Init /\ [][NextShort]_vars

\* closestPair on longer vectors over a smaller grid.
NextClosest ==
    \/ PushBack(CPGrid, CPMaxPts)
    \/ CallClosestPair

SpecClosest == Init /\ [][NextClosest]_vars

\* Polygons with their vertices in any order.
NextPolygon ==
    \/ PushVertex
    \/ CallIsInside
    \/ CallPolygonArea

SpecPolygon == Init /\ [][NextPolygon]_vars

\* The predicates on scalar arguments.
NextPredicates ==
    \/ CallOrientation
    \/ CallDoIntersect

SpecPredicates == Init /\ [][NextPredicates]_vars

----------------------------------------------------------------------------
(* Plane geometry over the integers, against which the results are judged *)

\* Twice the signed area of the triangle o, a, b: positive when o, a, b turn
\* counter-clockwise.
Cross(o, a, b) == (a.x - o.x) * (b.y - o.y) - (a.y - o.y) * (b.x - o.x)

Dot(o, a, b) == (a.x - o.x) * (b.x - o.x) + (a.y - o.y) * (b.y - o.y)

DistSqExact(a, b) == (a.x - b.x) * (a.x - b.x) + (a.y - b.y) * (a.y - b.y)

Range(s) == {s[i] : i \in 1..Len(s)}

\* The vertex after vertex i (1-based) of a closed polygon.
Succ(s, i) == s[(i % Len(s)) + 1]

\* p lies on the closed segment a-b.
OnClosedSegment(p, a, b) ==
    /\ a = b => p = a
    /\ Cross(a, b, p) = 0
    /\ Dot(a, b, p) >= 0
    /\ Dot(a, b, p) <= Dot(a, b, b)

\* Twice the signed area of the polygon: positive when the vertices run
\* counter-clockwise.
RECURSIVE SignedArea2From(_, _)
SignedArea2From(s, i) ==
    IF i > Len(s) THEN 0
    ELSE s[i].x * Succ(s, i).y - Succ(s, i).x * s[i].y + SignedArea2From(s, i + 1)

\* h is a convex polygon traversed counter-clockwise: no vertex lies to the
\* right of any edge, and the polygon encloses area.
ConvexCCW(h) ==
    /\ \A i, k \in 1..Len(h) : Cross(h[i], Succ(h, i), h[k]) >= 0
    /\ SignedArea2From(h, 1) > 0

\* p lies inside or on the convex counter-clockwise polygon h; for a hull of
\* two points, on the segment between them.
InOrOnHull(h, p) ==
    IF Len(h) >= 3 THEN \A i \in 1..Len(h) : Cross(h[i], Succ(h, i), p) >= 0
    ELSE IF Len(h) = 2 THEN OnClosedSegment(p, h[1], h[2])
    ELSE IF Len(h) = 1 THEN p = h[1]
    ELSE FALSE

HasRepeat(s) == \E i, j \in 1..Len(s) : i < j /\ s[i] = s[j]

\* The largest squared distance between two entries of s.
MaxPairDistSq(s) ==
    LET ds == {DistSqExact(s[i], s[j]) : i, j \in 1..Len(s)}
    IN  CHOOSE d \in ds : \A e \in ds : e <= d

\* The smallest squared distance between two entries of s at distinct indices.
MinPairDistSq(s) ==
    LET pairs == {pr \in (1..Len(s)) \X (1..Len(s)) : pr[1] < pr[2]}
        dd == {DistSqExact(s[pr[1]], s[pr[2]]) : pr \in pairs}
    IN  CHOOSE d \in dd : \A e \in dd : d <= e

----------------------------------------------------------------------------
(* convexHull: claims C1 and C2 *)

\* C1: for every vector of points (repeated and collinear points included), what
\* convexHull returns (i) holds input points only, (ii) is, from three points
\* on, a convex polygon traversed counter-clockwise, and (iii) has every input
\* point inside it or on it (for a result of two points: on their segment).
C1_HullContract ==
    op = "convexHull" =>
        /\ Range(result) \subseteq Range(given)
        /\ Len(result) >= 3 => ConvexCCW(result)
        /\ \A p \in Range(given) : InOrOnHull(result, p)

\* A hull of three vertices or more from an input that repeats a point and
\* holds a point that is no vertex of the hull.
C1_Witness ==
    /\ op = "convexHull"
    /\ Len(result) >= 3
    /\ HasRepeat(given)
    /\ \E p \in Range(given) : p \notin Range(result)

\* No three cyclically consecutive points of h are collinear.
NoCollinearTriple(h) ==
    \A i \in 1..Len(h) : Cross(h[i], Succ(h, i), Succ(h, (i % Len(h)) + 1)) # 0

\* C2: the vector convexHull returns holds no point twice and, from three points
\* on, no three cyclically consecutive collinear points, inputs that repeat a
\* point included.  Stated for the inputs of three points and more, on which
\* the chains are built: an input of at most two points is returned as it is,
\* so that a repeated pair <<a, a>> comes back repeated.
C2_NoRepeatNoCollinear ==
    op = "convexHull" /\ Len(given) >= 3 =>
        /\ ~ HasRepeat(result)
        /\ Len(result) >= 3 => NoCollinearTriple(result)

----------------------------------------------------------------------------
(* polygonDiameter: claim C5 *)

Square4 == <<Point(0, 0), Point(4, 0), Point(4, 4), Point(0, 4)>>
Line4 == <<Point(0, 0), Point(1, 1), Point(2, 2), Point(3, 3)>>

\* C5: for every input of >= 2 points the squared value polygonDiameter computes
\* is the largest squared distance between two vertices of the input's convex
\* hull; it is 32 for the square of side 4 and 18 for four points on the diagonal.
C5_DiameterIsHullMax ==
    /\ op = "polygonDiameter" /\ Len(given) >= 2 =>
          result = MaxPairDistSq(convexHull(given))
    /\ polygonDiameter(Square4) = 32
    /\ polygonDiameter(Line4) = 18

\* The calipers have swept a hull of five vertices or more.
C5_Witness ==
    /\ op = "polygonDiameter"
    /\ Len(convexHull(given)) >= 5
    /\ result = MaxPairDistSq(given)

----------------------------------------------------------------------------
(* closestPair: claims C4 and C10 *)

\* C4: for every input of n >= 2 points, repeated points and shared coordinates
\* included, the squared distance that closestPair's divide and conquer computes
\* is the least squared distance over all pairs of distinct indices; it is 0
\* when two entries are equal.
C4_ClosestIsBruteForce ==
    op = "closestPair" /\ Len(given) >= 2 =>
        /\ result = MinPairDistSq(given)
        /\ HasRepeat(given) => result = 0

\* The invocations of closestPairUtil in the last call of closestPair.
Invocations == IF copies = <<>> THEN {} ELSE closestPairUtilCalls(copies[1], copies[2])

\* The recursion has split a half again, on an input that repeats a point.
C4_Witness ==
    /\ op = "closestPair"
    /\ Cardinality(Invocations) >= 5
    /\ HasRepeat(given)
    /\ Cardinality(Range(given)) >= 3
    /\ result = 0

\* a and b hold the same points the same number of times.
SameMultiset(a, b) ==
    /\ Len(a) = Len(b)
    /\ \A p \in Range(a) \cup Range(b) :
          Cardinality({i \in 1..Len(a) : a[i] = p}) = Cardinality({i \in 1..Len(b) : b[i] = p})

NonDecreasingY(s) == \A i \in 1..(Len(s) - 1) : s[i].y <= s[i + 1].y

\* C10: in every invocation of closestPairUtil reached from closestPair, on
\* inputs with repeated points too, pointsY holds the same multiset of points
\* as pointsX, in non-decreasing y order.
C10_PointsYMatchesPointsX ==
    op = "closestPair" =>
        \A c \in Invocations : SameMultiset(c[1], c[2]) /\ NonDecreasingY(c[2])

----------------------------------------------------------------------------
(* doIntersect and orientation: claims C6 and C9 *)

\* The closed segments p1-q1 and p2-q2 have a point in common.  With
\* r = q1 - p1, s = q2 - p2 and w = p2 - p1, a common point is p1 + t r = p2 + u s
\* for t, u in [0, 1]: t = (w x s) / (r x s) and u = (w x r) / (r x s) when the
\* segments are not parallel.
SegmentsMeet(p1, q1, p2, q2) ==
    LET rx == q1.x - p1.x
        ry == q1.y - p1.y
        sx == q2.x - p2.x
        sy == q2.y - p2.y
        wx == p2.x - p1.x
        wy == p2.y - p1.y
        rxs == rx * sy - ry * sx
        tn == wx * sy - wy * sx
        un == wx * ry - wy * rx
        sg == IF rxs > 0 THEN 1 ELSE -1
    IN  IF rxs # 0
        THEN /\ 0 <= sg * tn /\ sg * tn <= sg * rxs
             /\ 0 <= sg * un /\ sg * un <= sg * rxs
        ELSE IF rx = 0 /\ ry = 0 THEN OnClosedSegment(p1, p2, q2)
        ELSE IF sx = 0 /\ sy = 0 THEN OnClosedSegment(p2, p1, q1)
        ELSE \* parallel: on one line, and the projections on r overlap
             /\ un = 0
             /\ LET a == Dot(p1, q1, p2)
                    b == Dot(p1, q1, q2)
                IN  Max(a, b) >= 0 /\ Min(a, b) <= Dot(p1, q1, q1)

\* C6: for all points p1, q1, p2, q2 (segments of length zero and collinear
\* overlapping segments included) doIntersect returns true exactly when the
\* closed segments p1-q1 and p2-q2 have a point in common.
C6_DoIntersectIsMeet ==
    op = "doIntersect" =>
        result = SegmentsMeet(args[1], args[2], args[3], args[4])

\* Two collinear segments with four distinct endpoints that overlap.
C6_Witness ==
    /\ op = "doIntersect"
    /\ result = TRUE
    /\ Cardinality(Range(args)) = 4
    /\ \A i \in 3..4 : Cross(args[1], args[2], args[i]) = 0

\* The turn of p, q, r by the sign of the exact cross product
\* (q.y - p.y) * (r.x - q.x) - (q.x - p.x) * (r.y - q.y).
ExactTurn(p, q, r) ==
    LET v == (q.y - p.y) * (r.x - q.x) - (q.x - p.x) * (r.y - q.y)
    IN  IF v = 0 THEN 0 ELSE IF v > 0 THEN 1 ELSE 2

\* C9: for a signed integer type T of TBits bits, orientation(p, q, r) is the
\* sign of the exact cross product for all p, q, r with coordinates in T: no
\* intermediate value overflows T.
C9_OrientationIsExact ==
    op = "orientation" => result = ExactTurn(args[1], args[2], args[3])

----------------------------------------------------------------------------
(* isInside: claims C3 and C7 *)

Edges(s) == 1..Len(s)

\* Edges i and j of the closed polygon s share a vertex by position.
Adjacent(s, i, j) == j = (i % Len(s)) + 1 \/ i = (j % Len(s)) + 1

\* s is a simple polygon: at least three vertices, no edge of length zero,
\* neighbouring edges meet in their common vertex only, other edges not at all.
IsSimplePolygon(s) ==
    /\ Len(s) >= 3
    /\ \A i \in Edges(s) : s[i] # Succ(s, i)
    /\ \A i, j \in Edges(s) :
          i < j =>
             IF Adjacent(s, i, j)
             THEN LET e == IF j = (i % Len(s)) + 1 THEN i ELSE j   \* the edge that comes first
                      f == (e % Len(s)) + 1
                  IN  /\ ~ OnClosedSegment(Succ(s, f), s[e], s[f])
                      /\ ~ OnClosedSegment(s[e], s[f], Succ(s, f))
             ELSE ~ SegmentsMeet(s[i], Succ(s, i), s[j], Succ(s, j))

OnBoundary(s, p) == \E i \in Edges(s) : OnClosedSegment(p, s[i], Succ(s, i))

\* The ray from p towards +x crosses the edge a-b, an edge counting at its
\* lower end and not at its upper end.
CrossesRay(a, b, p) ==
    /\ (a.y > p.y) # (b.y > p.y)
    /\ LET dy == b.y - a.y
           v == (a.x - p.x) * dy + (p.y - a.y) * (b.x - a.x)
       IN  IF dy > 0 THEN v > 0 ELSE v < 0

\* p lies strictly inside the simple polygon s or on its boundary.
InsideOrOn(s, p) ==
    \/ OnBoundary(s, p)
    \/ Cardinality({i \in Edges(s) : CrossesRay(s[i], Succ(s, i), p)}) % 2 = 1

\* C3: for every simple polygon of >= 3 vertices, convex or not, in either
\* winding order, and every query point p, isInside returns true exactly when p
\* lies strictly inside the polygon or on its boundary, also when the ray from p
\* passes through a vertex or runs along a horizontal edge.
C3_IsInsideIsExact ==
    op = "isInside" /\ IsSimplePolygon(given) =>
        result = InsideOrOn(given, args[1])

\* s is a strictly convex polygon, in either winding order.
IsConvexPolygon(s) ==
    /\ Len(s) >= 3
    /\ \/ \A i, k \in Edges(s) :
             (k # i /\ k # (i % Len(s)) + 1) => Cross(s[i], Succ(s, i), s[k]) > 0
       \/ \A i, k \in Edges(s) :
             (k # i /\ k # (i % Len(s)) + 1) => Cross(s[i], Succ(s, i), s[k]) < 0

RECURSIVE SumX(_)
SumX(s) == IF s = <<>> THEN 0 ELSE Head(s).x + SumX(Tail(s))
RECURSIVE SumY(_)
SumY(s) == IF s = <<>> THEN 0 ELSE Head(s).y + SumY(Tail(s))

\* p is the average of the vertices of s.
IsCentroid(s, p) == p.x * Len(s) = SumX(s) /\ p.y * Len(s) = SumY(s)

OutsideBoundingBox(s, p) ==
    \/ \A i \in 1..Len(s) : p.x < s[i].x
    \/ \A i \in 1..Len(s) : p.x > s[i].x
    \/ \A i \in 1..Len(s) : p.y < s[i].y
    \/ \A i \in 1..Len(s) : p.y > s[i].y

\* C7: for every convex polygon of >= 3 vertices isInside is true at the
\* centroid of the polygon (where that is a point of integer coordinates) and
\* false at every point outside its axis-aligned bounding box.
C7_CentroidInsideFarOutside ==
    op = "isInside" /\ IsConvexPolygon(given) =>
        /\ IsCentroid(given, args[1]) => result = TRUE
        /\ OutsideBoundingBox(given, args[1]) => result = FALSE

----------------------------------------------------------------------------
(* Short inputs: claim C8 *)

\* C8: closestPair and polygonDiameter return 0 for fewer than 2 points,
\* polygonArea returns 0 and isInside false for fewer than 3 vertices, and
\* convexHull returns a vector of at most 2 points element for element.
C8_ShortInputs ==
    /\ op = "closestPair" /\ Len(given) < 2 => result = 0
    /\ op = "polygonDiameter" /\ Len(given) < 2 => result = 0
    /\ op = "polygonArea" /\ Len(given) < 3 => result.num = 0
    /\ op = "isInside" /\ Len(given) < 3 => result = FALSE
    /\ op = "convexHull" /\ Len(given) <= 2 => result = given

\* convexHull was handed two points in descending order.
C8_Witness ==
    /\ op = "convexHull"
    /\ Len(given) = 2
    /\ PointLess(given[2], given[1])
    /\ result = given

====
